---- MODULE Spec2Model ----
(***************************************************************************)
(* CT-SaaS torrent lifecycle core: the HTTP handlers that add torrents,    *)
(* the engine Registry (Engine.torrents), the 1 Hz updater, the reducer    *)
(* (processTorrentUpdates), the durable store, the download-token path,    *)
(* the packager, the retention sweeper and the start-up reloader.          *)
(*                                                                         *)
(* Units: the clock `now` counts days (retention_days, the 24 h token      *)
(* lifetime = 1); sizes count GiB (download_limit_gb).  uuid.New() is a    *)
(* fresh number drawn from nextId.  NULL timestamps are Null.              *)
(***************************************************************************)
EXTENDS Integers, Sequences, FiniteSets, TLC

\* ---------------------------------------------------------------- bounds
MaxTime == 2
MaxIds == 4
MaxRestarts == 1
MaxUsage == 2
MaxPackagers == 2
MaxRows == 1
MaxReloads == 2
UpdateChCap == 2
Rate == 2
MaxMinutes == 3
MaxHeaderLen == 4
MaxFileLen == 3
MaxPathLen == 7

\* ------------------------------------------------------ program constants
TokenMaxDownloads == 10
TokenLifetime == 1
Window == 1
Null == -1
NoId == 0

Users == {"u1", "u2"}
Admins == {"adm"}
Callers == Users \cup Admins
RemoteIPs == {"ip1", "ip2"}
InfoHashes == {"h1", "h2"}
AddSlots == {"a1", "a2"}
DlSlots == {"d1", "d2"}
TokenNames == {"k1"}
AddKinds == {"magnet", "badmagnet", "url", "upload", "empty"}
PlanInputs == {"free", "starter"}
FetchingName == "Fetching metadata..."

\* models.Plans
Plans ==
  [ free      |-> [DownloadLimitGB |-> 2,  ConcurrentLimit |-> 1,  RetentionDays |-> 1],
    starter   |-> [DownloadLimitGB |-> 50, ConcurrentLimit |-> 3,  RetentionDays |-> 7],
    pro       |-> [DownloadLimitGB |-> 500, ConcurrentLimit |-> 10, RetentionDays |-> 30],
    unlimited |-> [DownloadLimitGB |-> -1, ConcurrentLimit |-> 25, RetentionDays |-> 90] ]

\* The swarm's torrents: what the engine learns with the metadata.
TorrentLength == [h \in InfoHashes |-> IF h = "h1" THEN 2 ELSE 1]
TorrentFiles == [h \in InfoHashes |-> IF h = "h1" THEN 1 ELSE 2]
TorrentName == [h \in InfoHashes |-> IF h = "h1" THEN "alpha" ELSE "beta"]

VARIABLES
  now,        \* wall clock (days)
  nextId,     \* next value of uuid.New()
  restarts,   \* process restarts so far
  subs,       \* subscriptions: user -> plan name
  torrents,   \* torrents table: id -> row
  usage,      \* usage_logs table, in insertion order
  registry,   \* Engine.torrents: info hash -> ManagedTorrent or NoMT
  client,     \* anacrolix client: info hash -> [info, started, paused]
  disk,       \* bytes of each torrent verified in DOWNLOAD_DIR
  waiter,     \* info hash -> a goroutine waits on t.GotInfo()
  updateCh,   \* Engine.updateCh
  addReq,     \* in-flight POST /torrents and POST /torrents/upload requests
  packagers,  \* record id -> running auto-zip goroutines
  sweep,      \* the retention sweep in progress
  tokens,     \* download_tokens table: token -> row
  dl,         \* in-flight GET /download/:token requests
  resp,       \* the last HTTP response sent
  deadline,   \* info hash -> state of the 5-minute metadata deadline
  ctl,        \* the in-flight pause or resume request
  sse,        \* the open event streams and the last torrents event written
  rl,         \* RateLimiter.buckets, its clock, the admissions of the current minute
  mu,         \* Engine.mu: the updater's walk under RLock, the callers waiting in Lock
  book        \* info hash -> the task that last wrote the ManagedTorrent's lastUpdate

vars == <<now, nextId, restarts, subs, torrents, tokens, usage, registry, client, disk,
          waiter, updateCh, addReq, packagers, sweep, dl, resp, deadline, ctl, sse, rl,
          mu, book>>

Ids == 1..MaxIds

\* The role claim of a caller's access token.
RoleOf == [c \in Callers |-> IF c \in Admins THEN "admin" ELSE "user"]

\* What a request presents as a bearer token: nothing, a string that does
\* not validate, or the access token of a caller.
Credentials == {"none", "bad"} \cup Callers

\* middleware.NewRateLimiter: no buckets.  clock counts the minutes since
\* then; admitted counts, for each identity, the requests the limiter has
\* let through during the current minute.
NewRateLimiter ==
  [buckets |-> [k \in {} |-> 0], clock |-> 0,
   admitted |-> [c \in Callers \cup RemoteIPs |-> 0]]
NoMT == [ID |-> NoId, UserID |-> "", via |-> ""]
IdleReq == [pc |-> "idle", user |-> "", kind |-> "", hash |-> "", id |-> NoId, status |-> ""]
IdleSweep == [pc |-> "idle", start |-> Null, found |-> {}, todo |-> <<>>]
IdleDl == [pc |-> "idle", token |-> "", torrent_id |-> NoId, file_path |-> <<>>]
NoResp == [op |-> "", code |-> 0, err |-> ""]
IdleCtl == [pc |-> "idle", op |-> "", user |-> "", id |-> NoId, hash |-> "", progress |-> 0]
NoStreams == [open |-> {}, last |-> [user |-> "", all |-> FALSE, items |-> {}]]
FreeMu == [updater |-> [pc |-> "idle", todo |-> <<>>], waiting |-> {}]
NoBook == [h \in InfoHashes |-> ""]

Init ==
  /\ now = 0
  /\ nextId = 1
  /\ restarts = 0
  /\ subs = [u \in Users |-> "free"]
  /\ torrents = [i \in {} |-> 0]
  /\ usage = <<>>
  /\ registry = [h \in InfoHashes |-> NoMT]
  /\ client = [h \in InfoHashes |-> [info |-> FALSE, started |-> FALSE, paused |-> FALSE]]
  /\ disk = [h \in InfoHashes |-> 0]
  /\ waiter = [h \in InfoHashes |-> FALSE]
  /\ updateCh = <<>>
  /\ addReq = [a \in AddSlots |-> IdleReq]
  /\ packagers = [i \in Ids |-> 0]
  /\ sweep = IdleSweep
  /\ tokens = [k \in {} |-> 0]
  /\ dl = [d \in DlSlots |-> IdleDl]
  /\ resp = NoResp
  /\ deadline = [h \in InfoHashes |-> "none"]
  /\ ctl = IdleCtl
  /\ sse = NoStreams
  /\ rl = NewRateLimiter
  /\ mu = FreeMu
  /\ book = NoBook

\* ------------------------------------------------------------ the store
RowIds == DOMAIN torrents

\* Database.CountActiveTorrents
CountActiveTorrents(u) ==
  Cardinality({i \in RowIds : torrents[i].user_id = u
                               /\ torrents[i].status \in {"pending", "downloading"}})

RECURSIVE SumBytes(_, _)
SumBytes(rows, u) ==
  IF rows = <<>> THEN 0
  ELSE (IF Head(rows).user_id = u /\ Head(rows).action = "download_completed"
        THEN Head(rows).bytes ELSE 0) + SumBytes(Tail(rows), u)

\* Database.GetMonthlyUsage (the model's runs stay within one month)
GetMonthlyUsage(u) == SumBytes(usage, u)

\* Database.GetTorrentByInfoHash: the caller's newest row of that info hash
UserRows(u, h) == {i \in RowIds : torrents[i].user_id = u /\ torrents[i].info_hash = h}

\* Database.CreateTorrent: the row is stored under a fresh uuid
StoredId(handlerId, fresh) == fresh

NewRow(id, u, h, magnet, status) ==
  [id |-> id, user_id |-> u, info_hash |-> h, magnet_uri |-> magnet, status |-> status,
   name |-> "", total_size |-> 0, progress |-> 0, nfiles |-> 0, zip |-> FALSE,
   error_message |-> "", completed_at |-> Null, expires_at |-> Null]

\* Insert row r under key i, keeping the table a function on its ids.
Insert(tbl, i, r) == [j \in (DOMAIN tbl) \cup {i} |-> IF j = i THEN r ELSE tbl[j]]
Delete(tbl, i) == [j \in (DOMAIN tbl) \ {i} |-> tbl[j]]

\* -------------------------------------------------- POST /torrents, /upload
InFlight == {a \in AddSlots : addReq[a].pc # "idle"}

\* A request arrives: authenticated user u posts a body that parses: a
\* magnet, a torrent URL, an upload or an empty body, of info hash h.  Two uuids are kept in reserve
\* for each request in flight (the handler's and the store's).
AddRequest(a, u, kind, h) ==
  /\ addReq[a].pc = "idle"
  /\ nextId + 2 * (Cardinality(InFlight) + 1) <= MaxIds + 1
  /\ addReq' = [addReq EXCEPT ![a] = [IdleReq EXCEPT !.pc = "quota", !.user = u,
                                                      !.kind = kind, !.hash = h]]
  /\ UNCHANGED <<now, nextId, restarts, subs, torrents, tokens, usage, registry, client,
                 disk, waiter, updateCh, packagers, sweep, dl, resp,
                 deadline, ctl, sse, rl, mu, book>>

\* A quota check without its concurrent-limit test.
checkQuotaBandwidthOnly(u) ==
  LET limits == Plans[subs[u]] IN
  IF limits.DownloadLimitGB > 0 /\ GetMonthlyUsage(u) >= limits.DownloadLimitGB
  THEN "BANDWIDTH_LIMIT" ELSE "ok"

\* TorrentHandler.checkQuota
checkQuota(u) ==
  LET limits == Plans[subs[u]] IN
  IF CountActiveTorrents(u) >= limits.ConcurrentLimit THEN "CONCURRENT_LIMIT"
  ELSE IF limits.DownloadLimitGB > 0 /\ GetMonthlyUsage(u) >= limits.DownloadLimitGB
       THEN "BANDWIDTH_LIMIT"
  ELSE "ok"

OpOf(kind) == IF kind = "upload" THEN "UploadTorrent" ELSE "AddTorrent"

\* The handler up to the engine call: quota, then the body's validation.
AddCheckQuota(a) ==
  LET r == addReq[a]
      q == checkQuota(r.user) IN
  /\ r.pc = "quota"
  /\ IF q # "ok"
     THEN /\ resp' = [op |-> OpOf(r.kind), code |-> 403, err |-> q]
          /\ addReq' = [addReq EXCEPT ![a] = IdleReq]
     ELSE IF r.kind \in {"empty", "badmagnet"}
     THEN /\ resp' = [op |-> OpOf(r.kind), code |-> 400, err |-> "invalid"]
          /\ addReq' = [addReq EXCEPT ![a] = IdleReq]
     ELSE /\ resp' = resp
          /\ addReq' = [addReq EXCEPT ![a].pc = "engine"]
  /\ UNCHANGED <<now, nextId, restarts, subs, torrents, tokens, usage, registry, client,
                 disk, waiter, updateCh, packagers, sweep, dl,
                 deadline, ctl, sse, rl, mu, book>>

\* Engine.buildUpdate; hasInfo is t.Info() != nil, peers is stats.ActivePeers.
\* The client is configured with Seed = false, so t.Seeding() is false.
buildUpdate(h, mt, hasInfo, peers) ==
  IF ~hasInfo
  THEN [ID |-> mt.ID, InfoHash |-> h, Status |-> "pending", Progress |-> 0,
        Name |-> FetchingName, TotalSize |-> 0, Files |-> 0, Error |-> ""]
  ELSE LET total == TorrentLength[h]
           done == disk[h] IN
       [ID |-> mt.ID, InfoHash |-> h,
        Status |-> IF done >= total THEN "completed"
                   ELSE IF peers > 0 THEN "downloading" ELSE "stalled",
        Progress |-> IF total > 0 THEN (done * 100) \div total ELSE 0,
        Name |-> TorrentName[h], TotalSize |-> total, Files |-> TorrentFiles[h],
        Error |-> ""]

\* The select of Engine.sendUpdate: a non-blocking send, dropped when full.
TrySend(ch, upd) == IF Len(ch) < UpdateChCap THEN Append(ch, upd) ELSE ch

\* stats.ActivePeers: none once SetMaxEstablishedConns(0) has dropped them
ActivePeers(h, peers) == IF client[h].paused THEN 0 ELSE peers

\* Engine.buildUpdate's `mt.lastUpdate = now`, reached once t.Info() is
\* there: task `who` has called buildUpdate for the torrents of S.
Stamp(bk, S, who) ==
  [h \in InfoHashes |->
     IF h \in S /\ registry[h] # NoMT /\ client[h].info THEN who ELSE bk[h]]

\* e.mu is held by a goroutine that is blocked inside its critical section:
\* every other Lock() and RLock() on the engine waits.
MuHeld == \E h \in InfoHashes : deadline[h] = "blocked"

\* The updater is inside its walk over e.torrents, holding e.mu.RLock().
ReadHeld == mu.updater.pc = "walk"

\* e.mu.Lock() returns: nobody holds the lock, for writing or for reading.
CanLock == ~MuHeld /\ ~ReadHeld

\* e.mu.RLock() returns: nobody holds the lock for writing and nobody waits
\* in Lock() (sync.RWMutex lets no new reader in once a writer has called).
CanRLock == ~MuHeld /\ mu.waiting = {}

\* An engine that inserts without looking.
AlreadyManagedNever(reg, h) == FALSE

\* Engine.AddMagnet, Engine.AddTorrentFile: the lookup under e.mu.
AlreadyManaged(reg, h) == reg[h] # NoMT

\* Engine.AddMagnet / Engine.AddTorrentFile called by the handler.
AddEngine(a) ==
  LET r == addReq[a]
      h == r.hash
      isFile == r.kind \in {"url", "upload"}
      mt == [ID |-> nextId, UserID |-> r.user, via |-> "add"] IN
  /\ r.pc = "engine"
  /\ CanLock
  /\ IF AlreadyManaged(registry, h)
     THEN \* "exists": the caller is told the existing id
          /\ addReq' = [addReq EXCEPT ![a].pc = "exists", ![a].id = registry[h].ID,
                                      ![a].status = "exists"]
          \* client.AddTorrent(mi) merges the metainfo into the torrent it has
          /\ client' = IF isFile THEN [client EXCEPT ![h].info = TRUE] ELSE client
          /\ UNCHANGED <<nextId, registry, waiter, updateCh, book>>
     ELSE /\ nextId' = nextId + 1
          /\ registry' = [registry EXCEPT ![h] = mt]
          \* a new ManagedTorrent; sendUpdate on the handler's goroutine
          /\ book' = [book EXCEPT ![h] = IF isFile THEN "add" ELSE ""]
          /\ IF isFile
             THEN \* t.DownloadAll(); e.sendUpdate(infoHash)
                  /\ client' = [client EXCEPT ![h] = [info |-> TRUE, started |-> TRUE, paused |-> FALSE]]
                  /\ waiter' = waiter
                  /\ \E peers \in {0, 1} :
                       updateCh' = TrySend(updateCh, buildUpdate(h, mt, TRUE, peers))
                  /\ addReq' = [addReq EXCEPT ![a].pc = "save", ![a].id = nextId,
                                              ![a].status = "downloading"]
             ELSE \* go func() { select { case <-t.GotInfo(): ... } }()
                  /\ client' = [client EXCEPT ![h] = [info |-> FALSE, started |-> FALSE, paused |-> FALSE]]
                  /\ waiter' = [waiter EXCEPT ![h] = TRUE]
                  /\ updateCh' = updateCh
                  /\ addReq' = [addReq EXCEPT ![a].pc = "save", ![a].id = nextId,
                                              ![a].status = "pending"]
  /\ mu' = [mu EXCEPT !.waiting = @ \ {a}]
  /\ UNCHANGED <<now, restarts, subs, torrents, tokens, usage, disk, packagers, sweep,
                 dl, resp,
                 deadline, ctl, sse, rl>>

\* The handler's engine call has reached e.mu.Lock() while the lock is
\* held: it waits there, and from now on keeps new readers out.
LockWaits(a) ==
  /\ addReq[a].pc = "engine"
  /\ ~CanLock
  /\ a \notin mu.waiting
  /\ mu' = [mu EXCEPT !.waiting = @ \cup {a}]
  /\ UNCHANGED <<now, nextId, restarts, subs, torrents, tokens, usage, registry, client,
                 disk, waiter, updateCh, addReq, packagers, sweep, dl, resp,
                 deadline, ctl, sse, rl, book>>

\* The handler after "exists": GetTorrentByInfoHash, then 200 or 409.
AddExists(a) ==
  LET r == addReq[a] IN
  /\ r.pc = "exists"
  /\ resp' = IF UserRows(r.user, r.hash) # {}
             THEN [op |-> OpOf(r.kind), code |-> 200, err |-> ""]
             ELSE [op |-> OpOf(r.kind), code |-> 409, err |-> "TORRENT_EXISTS"]
  /\ addReq' = [addReq EXCEPT ![a] = IdleReq]
  /\ UNCHANGED <<now, nextId, restarts, subs, torrents, tokens, usage, registry, client,
                 disk, waiter, updateCh, packagers, sweep, dl,
                 deadline, ctl, sse, rl, mu, book>>

\* The handler's h.db.CreateTorrent(t) and its 201.
AddSave(a) ==
  LET r == addReq[a]
      id == StoredId(r.id, nextId) IN
  /\ r.pc = "save"
  /\ torrents' = Insert(torrents, id,
                        NewRow(id, r.user, r.hash, r.kind \in {"magnet"}, r.status))
  /\ nextId' = nextId + 1
  /\ resp' = [op |-> OpOf(r.kind), code |-> 201, err |-> ""]
  /\ addReq' = [addReq EXCEPT ![a] = IdleReq]
  /\ UNCHANGED <<now, restarts, subs, tokens, usage, registry, client, disk, waiter,
                 updateCh, packagers, sweep, dl,
                 deadline, ctl, sse, rl, mu, book>>

\* h.db.CreateTorrent(t) returns an error (the store is down, the insert
\* is refused): the handler answers 500 and returns.
AddSaveFails(a) ==
  LET r == addReq[a] IN
  /\ r.pc = "save"
  /\ resp' = [op |-> OpOf(r.kind), code |-> 500, err |-> "failed to save torrent"]
  /\ addReq' = [addReq EXCEPT ![a] = IdleReq]
  /\ UNCHANGED <<now, nextId, restarts, subs, torrents, tokens, usage, registry, client,
                 disk, waiter, updateCh, packagers, sweep, dl,
                 deadline, ctl, sse, rl, mu, book>>

\* ------------------------------------------------------ the swarm (engine)
\* The metadata of a magnet arrives from the swarm: t.GotInfo() closes.
MetadataArrives(h) ==
  /\ registry[h] # NoMT
  /\ ~client[h].info
  /\ client' = [client EXCEPT ![h].info = TRUE]
  /\ UNCHANGED <<now, nextId, restarts, subs, torrents, tokens, usage, registry, disk,
                 waiter, updateCh, addReq, packagers, sweep, dl, resp,
                 deadline, ctl, sse, rl, mu, book>>

\* The goroutine of AddMagnet / ReloadTorrent on <-t.GotInfo():
\* t.DownloadAll(); e.sendUpdate(infoHash)
WaiterGotInfo(h) ==
  /\ waiter[h]
  /\ client[h].info
  /\ CanRLock
  /\ waiter' = [waiter EXCEPT ![h] = FALSE]
  /\ client' = [client EXCEPT ![h].started = TRUE]
  /\ \E peers \in {0, 1} :
       updateCh' = IF registry[h] = NoMT THEN updateCh
                   ELSE TrySend(updateCh,
                                buildUpdate(h, registry[h], TRUE, ActivePeers(h, peers)))
  /\ book' = Stamp(book, {h}, "waiter")
  /\ UNCHANGED <<now, nextId, restarts, subs, torrents, tokens, usage, registry, disk,
                 addReq, packagers, sweep, dl, resp,
                 deadline, ctl, sse, rl, mu>>

\* The update AddMagnet's goroutine synthesises on its deadline.
TimeoutUpdate(h, mt) ==
  [ID |-> mt.ID, InfoHash |-> h, Status |-> "failed", Progress |-> 0, Name |-> "",
   TotalSize |-> 0, Files |-> 0, Error |-> "timeout waiting for torrent metadata"]

\* <-time.After(5 * time.Minute) wins the select of the waiting goroutine.
\* AddMagnet's goroutine takes e.mu and sends on the channel with a plain
\* (blocking) send: with a full channel it stays there, holding the lock.
\* ReloadTorrent's goroutine just ends.
MetadataDeadline(h) ==
  /\ waiter[h]
  /\ ~client[h].info
  /\ waiter' = [waiter EXCEPT ![h] = FALSE]
  /\ IF registry[h].via = "add"
     THEN /\ CanLock
          /\ IF Len(updateCh) < UpdateChCap
             THEN /\ updateCh' = Append(updateCh, TimeoutUpdate(h, registry[h]))
                  /\ deadline' = [deadline EXCEPT ![h] = "passed"]
             ELSE /\ updateCh' = updateCh
                  /\ deadline' = [deadline EXCEPT ![h] = "blocked"]
     ELSE /\ updateCh' = updateCh
          /\ deadline' = [deadline EXCEPT ![h] = "passed"]
  /\ UNCHANGED <<now, nextId, restarts, subs, torrents, tokens, usage, registry, client,
                 disk, addReq, packagers, sweep, dl, resp, ctl, sse, rl, mu, book>>

\* The reducer has made room: the blocked send goes through, e.mu.Unlock().
DeadlineSendCompletes(h) ==
  /\ deadline[h] = "blocked"
  /\ Len(updateCh) < UpdateChCap
  /\ updateCh' = Append(updateCh, TimeoutUpdate(h, registry[h]))
  /\ deadline' = [deadline EXCEPT ![h] = "passed"]
  /\ UNCHANGED <<now, nextId, restarts, subs, torrents, tokens, usage, registry, client,
                 disk, waiter, addReq, packagers, sweep, dl, resp, ctl, sse, rl, mu, book>>

\* A piece is downloaded and verified: t.BytesCompleted() grows.
DownloadProgress(h) ==
  /\ registry[h] # NoMT
  /\ client[h].info
  /\ client[h].started
  /\ ~client[h].paused
  /\ disk[h] < TorrentLength[h]
  /\ disk' = [disk EXCEPT ![h] = disk[h] + 1]
  /\ UNCHANGED <<now, nextId, restarts, subs, torrents, tokens, usage, registry, client,
                 waiter, updateCh, addReq, packagers, sweep, dl, resp,
                 deadline, ctl, sse, rl, mu, book>>

\* ------------------------------------------------------------ the updater
Managed == {h \in InfoHashes : registry[h] # NoMT}
Orders(S) == {o \in [1..Cardinality(S) -> S] : \A i, j \in DOMAIN o : i # j => o[i] # o[j]}

\* Engine.sendUpdate
sendUpdate(ch, h, peers) ==
  IF registry[h] = NoMT THEN ch
  ELSE TrySend(ch, buildUpdate(h, registry[h], client[h].info, ActivePeers(h, peers)))

RECURSIVE SendAll(_, _, _)
SendAll(ch, order, peers) ==
  IF order = <<>> THEN ch
  ELSE SendAll(sendUpdate(ch, Head(order), peers[Head(order)]), Tail(order), peers)

\* One tick of Engine.updateLoop: the range over e.torrents (in Go's random
\* map order) under the read lock, one sendUpdate per torrent.
Tick ==
  /\ Managed # {}
  /\ CanRLock
  /\ \E order \in Orders(Managed), peers \in [Managed -> {0, 1}] :
       updateCh' = SendAll(updateCh, order, peers)
  /\ book' = Stamp(book, Managed, "updater")
  /\ UNCHANGED <<now, nextId, restarts, subs, torrents, tokens, usage, registry, client,
                 disk, waiter, addReq, packagers, sweep, dl, resp,
                 deadline, ctl, sse, rl, mu>>

\* The same tick step by step.  updateLoop takes e.mu.RLock() and ranges
\* over e.torrents ...
TickRLock ==
  /\ mu.updater.pc = "idle"
  /\ Managed # {}
  /\ CanRLock
  /\ \E order \in Orders(Managed) :
       mu' = [mu EXCEPT !.updater = [pc |-> "walk", todo |-> order]]
  /\ UNCHANGED <<now, nextId, restarts, subs, torrents, tokens, usage, registry, client,
                 disk, waiter, updateCh, addReq, packagers, sweep, dl, resp,
                 deadline, ctl, sse, rl, book>>

\* ... calls e.sendUpdate for the next info hash, which takes e.mu.RLock()
\* once more for its lookup ...
TickSend(peers) ==
  /\ mu.updater.pc = "walk"
  /\ mu.updater.todo # <<>>
  /\ CanRLock
  /\ updateCh' = sendUpdate(updateCh, Head(mu.updater.todo), peers)
  /\ mu' = [mu EXCEPT !.updater.todo = Tail(@)]
  /\ book' = Stamp(book, {Head(mu.updater.todo)}, "updater")
  /\ UNCHANGED <<now, nextId, restarts, subs, torrents, tokens, usage, registry, client,
                 disk, waiter, addReq, packagers, sweep, dl, resp,
                 deadline, ctl, sse, rl>>

\* ... and releases the lock after the last one.
TickRUnlock ==
  /\ mu.updater.pc = "walk"
  /\ mu.updater.todo = <<>>
  /\ mu' = [mu EXCEPT !.updater.pc = "idle"]
  /\ UNCHANGED <<now, nextId, restarts, subs, torrents, tokens, usage, registry, client,
                 disk, waiter, updateCh, addReq, packagers, sweep, dl, resp,
                 deadline, ctl, sse, rl, book>>

\* ------------------------------------------------------------ the reducer
\* Database.SetTorrentError
SetTorrentError(tbl, id, msg) ==
  IF id \in DOMAIN tbl
  THEN [tbl EXCEPT ![id].status = "failed", ![id].error_message = msg] ELSE tbl

\* Database.SetTorrentCompleted
SetTorrentCompleted(tbl, id, retentionDays) ==
  IF id \in DOMAIN tbl
  THEN [tbl EXCEPT ![id].status = "completed", ![id].progress = 100,
                   ![id].completed_at = now, ![id].expires_at = now + retentionDays]
  ELSE tbl

\* Database.UpdateTorrentName
UpdateTorrentName(tbl, id, name, total) ==
  IF id \in DOMAIN tbl
  THEN [tbl EXCEPT ![id].name = name, ![id].total_size = total] ELSE tbl

\* Database.UpdateTorrentFiles
UpdateTorrentFiles(tbl, id, files) ==
  IF id \in DOMAIN tbl THEN [tbl EXCEPT ![id].nfiles = files] ELSE tbl

\* Database.UpdateTorrentStatus
UpdateTorrentStatus(tbl, id, status, progress) ==
  IF id \in DOMAIN tbl
  THEN [tbl EXCEPT ![id].status = status, ![id].progress = progress] ELSE tbl

\* Database.UpdateTorrentZip
UpdateTorrentZip(tbl, id) ==
  IF id \in DOMAIN tbl THEN [tbl EXCEPT ![id].zip = TRUE] ELSE tbl

HasName(u) == u.Name # "" /\ u.Name # FetchingName

\* The reducer's test for the completion branch.
IsCompletion(u) == u.Progress >= 100 /\ u.Status = "completed"

\* Whether the completion branch starts the auto-zip goroutine.
StartsPackager(u) == u.Files > 1

\* The name, size and file list written after the status in both branches.
WithMeta(tbl, u) ==
  LET named == IF HasName(u) THEN UpdateTorrentName(tbl, u.ID, u.Name, u.TotalSize)
               ELSE tbl IN
  IF u.Files > 0 THEN UpdateTorrentFiles(named, u.ID, u.Files) ELSE named

\* One iteration of processTorrentUpdates on the update at the channel's
\* head.  statusOK: the branch's first write (SetTorrentError,
\* SetTorrentCompleted, UpdateTorrentStatus) succeeds; its error is not
\* looked at, and the calls after it are made all the same.
ReduceStore(statusOK) ==
  /\ updateCh # <<>>
  /\ LET u == Head(updateCh) IN
     /\ updateCh' = Tail(updateCh)
     /\ IF u.Error # ""
        THEN /\ torrents' = IF statusOK THEN SetTorrentError(torrents, u.ID, u.Error)
                            ELSE torrents
             /\ UNCHANGED <<usage, packagers>>
        ELSE IF IsCompletion(u)
        THEN IF u.ID \in RowIds
             THEN LET t == torrents[u.ID]
                      retentionDays == Plans[subs[t.user_id]].RetentionDays IN
                  /\ torrents' = WithMeta(IF statusOK
                                          THEN SetTorrentCompleted(torrents, u.ID, retentionDays)
                                          ELSE torrents, u)
                  /\ IF StartsPackager(u)
                     THEN /\ packagers[u.ID] < MaxPackagers
                          /\ packagers' = [packagers EXCEPT ![u.ID] = @ + 1]
                     ELSE packagers' = packagers
                  \* db.LogUsage; tid records the update's ID the row was logged for
                  /\ Len(usage) < MaxUsage
                  /\ usage' = Append(usage,
                                [user_id |-> t.user_id, action |-> "download_completed",
                                 bytes |-> u.TotalSize, metadata |-> u.Name, tid |-> u.ID])
             ELSE UNCHANGED <<torrents, usage, packagers>>
        ELSE /\ torrents' = WithMeta(IF statusOK
                                     THEN UpdateTorrentStatus(torrents, u.ID, u.Status,
                                                              u.Progress)
                                     ELSE torrents, u)
             /\ UNCHANGED <<usage, packagers>>
  /\ UNCHANGED <<now, nextId, restarts, subs, tokens, registry, client, disk, waiter,
                 addReq, sweep, dl, resp,
                 deadline, ctl, sse, rl, mu, book>>

\* The iteration over a store that works.
Reduce == ReduceStore(TRUE)

\* The iteration in which the status write fails.
ReduceStatusFails == ReduceStore(FALSE)

\* ----------------------------------------------------------- the packager
\* The auto-zip goroutine ends: CreateZipFromFiles returned (ok or not) and,
\* when ok, db.UpdateTorrentZip stored the archive's name.
PackagerFinish(id, ok) ==
  /\ packagers[id] > 0
  /\ packagers' = [packagers EXCEPT ![id] = @ - 1]
  /\ torrents' = IF ok THEN UpdateTorrentZip(torrents, id) ELSE torrents
  /\ UNCHANGED <<now, nextId, restarts, subs, tokens, usage, registry, client, disk,
                 waiter, updateCh, addReq, sweep, dl, resp,
                 deadline, ctl, sse, rl, mu, book>>

\* ------------------------------------------------- removal and retention
\* Engine.RemoveTorrent(infoHash, deleteFiles) on the engine's state
\* <<registry, client, waiter, disk, book>>; rmOK: os.Remove succeeds.
RemoveTorrent(eng, h, deleteFiles, rmOK) ==
  IF eng.registry[h] = NoMT THEN eng
  ELSE [registry |-> [eng.registry EXCEPT ![h] = NoMT],
        client |-> [eng.client EXCEPT ![h] = [info |-> FALSE, started |-> FALSE, paused |-> FALSE]],
        waiter |-> [eng.waiter EXCEPT ![h] = FALSE],
        disk |-> IF deleteFiles /\ eng.client[h].info /\ rmOK
                 THEN [eng.disk EXCEPT ![h] = 0] ELSE eng.disk,
        book |-> [eng.book EXCEPT ![h] = ""]]

Engine ==
  [registry |-> registry, client |-> client, waiter |-> waiter, disk |-> disk, book |-> book]

SetEngine(eng) ==
  /\ registry' = eng.registry
  /\ client' = eng.client
  /\ waiter' = eng.waiter
  /\ disk' = eng.disk
  /\ book' = eng.book

\* Database.DeleteTorrent; download_tokens rows go with it (ON DELETE CASCADE)
DeleteTorrentRow(tbl, id) == IF id \in DOMAIN tbl THEN Delete(tbl, id) ELSE tbl
CascadeTokens(tk, id) == [k \in {x \in DOMAIN tk : tk[x].torrent_id # id} |-> tk[k]]

\* An ownership test that lets every caller through.
MayAccessAlways(row, u, role) == TRUE

\* GetTorrent, DeleteTorrent: t.UserID != userID && role != "admin" is 403
MayAccess(row, u, role) == row.user_id = u \/ role = "admin"

\* PauseTorrent, ResumeTorrent, CreateDownloadToken: t.UserID != userID is 403
Owns(row, u) == row.user_id = u

\* TorrentHandler.GetTorrent by caller u whose token carries role
GetTorrent(u, role, id) ==
  \* the 200 path reads the live status: engine.GetTorrentStatus, under RLock
  /\ (id \in RowIds /\ MayAccess(torrents[id], u, role)) => CanRLock
  /\ resp' = IF id \notin RowIds THEN [op |-> "GetTorrent", code |-> 404, err |-> ""]
             ELSE IF ~MayAccess(torrents[id], u, role)
             THEN [op |-> "GetTorrent", code |-> 403, err |-> ""]
             ELSE [op |-> "GetTorrent", code |-> 200, err |-> ""]
  /\ book' = IF id \in RowIds /\ MayAccess(torrents[id], u, role)
             THEN Stamp(book, {torrents[id].info_hash}, "http") ELSE book
  /\ UNCHANGED <<now, nextId, restarts, subs, torrents, tokens, usage, registry, client,
                 disk, waiter, updateCh, addReq, packagers, sweep, dl,
                 deadline, ctl, sse, rl, mu>>

\* TorrentHandler.DeleteTorrent by caller u whose token carries role
DeleteTorrentBy(u, role, id, deleteFiles, rmOK) ==
  /\ IF id \notin RowIds
     THEN /\ resp' = [op |-> "DeleteTorrent", code |-> 404, err |-> ""]
          /\ UNCHANGED <<torrents, tokens, registry, client, waiter, disk, book>>
     ELSE IF ~MayAccess(torrents[id], u, role)
     THEN /\ resp' = [op |-> "DeleteTorrent", code |-> 403, err |-> ""]
          /\ UNCHANGED <<torrents, tokens, registry, client, waiter, disk, book>>
     ELSE /\ CanLock
          /\ SetEngine(RemoveTorrent(Engine, torrents[id].info_hash, deleteFiles, rmOK))
          /\ torrents' = DeleteTorrentRow(torrents, id)
          /\ tokens' = CascadeTokens(tokens, id)
          /\ resp' = [op |-> "DeleteTorrent", code |-> 200, err |-> ""]
  /\ UNCHANGED <<now, nextId, restarts, subs, usage, updateCh, addReq, packagers, sweep, dl,
                 deadline, ctl, sse, rl, mu>>

\* The same by a caller of role user
DeleteTorrent(u, id, deleteFiles, rmOK) == DeleteTorrentBy(u, "user", id, deleteFiles, rmOK)

\* Database.GetExpiredTorrents: WHERE expires_at < NOW() (NULL never compares)
IsExpired(row, t) == row.expires_at # Null /\ row.expires_at < t
GetExpiredTorrents == {i \in RowIds : IsExpired(torrents[i], now)}

RECURSIVE AsSeq(_, _)
AsSeq(S, i) ==
  IF i > MaxIds THEN <<>>
  ELSE (IF i \in S THEN <<[id |-> i, info_hash |-> torrents[i].info_hash]>> ELSE <<>>)
       \o AsSeq(S, i + 1)

\* cleanupJob's hourly tick, or AdminHandler.CleanupExpired (the same
\* query and loop): the query.
SweepStart ==
  /\ sweep.pc # "run"
  /\ sweep' = [pc |-> "run", start |-> now, found |-> GetExpiredTorrents,
               todo |-> AsSeq(GetExpiredTorrents, 1)]
  /\ UNCHANGED <<now, nextId, restarts, subs, torrents, tokens, usage, registry, client,
                 disk, waiter, updateCh, addReq, packagers, dl, resp,
                 deadline, ctl, sse, rl, mu, book>>

\* A sweep that leaves the row in place.
SweepKeepsRow(tbl, id) == tbl

\* One iteration of the sweep's loop:
\* engine.RemoveTorrent(t.InfoHash, true); db.DeleteTorrent(ctx, t.ID)
SweepRemoves(tbl, id) == DeleteTorrentRow(tbl, id)

SweepStep(rmOK) ==
  /\ sweep.pc = "run"
  /\ sweep.todo # <<>>
  /\ CanLock
  /\ LET t == Head(sweep.todo) IN
     /\ SetEngine(RemoveTorrent(Engine, t.info_hash, TRUE, rmOK))
     /\ torrents' = SweepRemoves(torrents, t.id)
     /\ tokens' = CascadeTokens(tokens, t.id)
  /\ sweep' = [sweep EXCEPT !.todo = Tail(sweep.todo)]
  /\ UNCHANGED <<now, nextId, restarts, subs, usage, updateCh, addReq, packagers, dl, resp,
                 deadline, ctl, sse, rl, mu>>

\* The loop is over.
SweepEnd ==
  /\ sweep.pc = "run"
  /\ sweep.todo = <<>>
  /\ sweep' = [sweep EXCEPT !.pc = "done"]
  /\ UNCHANGED <<now, nextId, restarts, subs, torrents, tokens, usage, registry, client,
                 disk, waiter, updateCh, addReq, packagers, dl, resp,
                 deadline, ctl, sse, rl, mu, book>>

\* --------------------------------------------------- restart and reload
\* Engine.ReloadTorrent for one row, on <<registry, waiter>>
ReloadTorrent(acc, row) ==
  IF acc.registry[row.info_hash] # NoMT THEN acc
  ELSE IF row.status \in {"failed", "cancelled"} THEN acc
  ELSE [registry |-> [acc.registry EXCEPT ![row.info_hash] =
                        [ID |-> row.id, UserID |-> row.user_id, via |-> "reload"]],
        waiter |-> [acc.waiter EXCEPT ![row.info_hash] =
                        row.status \notin {"completed", "seeding"}]]

\* reloadActiveTorrents: GetAllTorrents is ORDER BY created_at DESC, and
\* rows are created in the order of their ids.
RECURSIVE reloadActiveTorrents(_, _)
reloadActiveTorrents(acc, i) ==
  IF i < 1 THEN acc
  ELSE reloadActiveTorrents(
         IF i \in RowIds /\ torrents[i].status \notin {"failed", "cancelled"}
         THEN ReloadTorrent(acc, torrents[i]) ELSE acc,
         i - 1)

\* The process stops and starts again: main() up to app.Listen.  What lived
\* in memory is gone; the store and DOWNLOAD_DIR stay.
RestartUpTo(max) ==
  /\ restarts < max
  /\ restarts' = restarts + 1
  /\ LET fresh == [registry |-> [h \in InfoHashes |-> NoMT],
                   waiter |-> [h \in InfoHashes |-> FALSE]]
         loaded == reloadActiveTorrents(fresh, MaxIds) IN
     /\ registry' = loaded.registry
     /\ waiter' = loaded.waiter
  /\ client' = [h \in InfoHashes |-> [info |-> FALSE, started |-> FALSE, paused |-> FALSE]]
  /\ updateCh' = <<>>
  /\ addReq' = [a \in AddSlots |-> IdleReq]
  /\ dl' = [d \in DlSlots |-> IdleDl]
  /\ packagers' = [i \in Ids |-> 0]
  /\ sweep' = IdleSweep
  /\ resp' = NoResp
  /\ deadline' = [h \in InfoHashes |-> "none"]
  /\ ctl' = IdleCtl
  /\ sse' = NoStreams
  /\ rl' = NewRateLimiter
  /\ mu' = FreeMu
  /\ book' = NoBook
  /\ UNCHANGED <<now, nextId, subs, torrents, tokens, usage, disk>>

Restart == RestartUpTo(MaxRestarts)

\* ------------------------------------------------------ plans and time
\* AdminHandler.UpdateUser with a plan: db.UpdateSubscription
UpdateSubscription(u, plan) ==
  /\ plan # subs[u]
  /\ subs' = [subs EXCEPT ![u] = plan]
  /\ UNCHANGED <<now, nextId, restarts, torrents, tokens, usage, registry, client, disk,
                 waiter, updateCh, addReq, packagers, sweep, dl, resp,
                 deadline, ctl, sse, rl, mu, book>>

AdvanceTime ==
  /\ now < MaxTime
  /\ now' = now + 1
  /\ UNCHANGED <<nextId, restarts, subs, torrents, tokens, usage, registry, client, disk,
                 waiter, updateCh, addReq, packagers, sweep, dl, resp,
                 deadline, ctl, sse, rl, mu, book>>

\* ------------------------------- POST /torrents/:id/pause and /resume
\* TorrentHandler.PauseTorrent up to its ownership test: the record is read
\* here, with the progress the handler writes back later.
PauseTorrent(u, id) ==
  /\ ctl.pc = "idle"
  /\ IF id \notin RowIds
     THEN /\ resp' = [op |-> "PauseTorrent", code |-> 404, err |-> ""]
          /\ ctl' = ctl
     ELSE IF ~Owns(torrents[id], u)
     THEN /\ resp' = [op |-> "PauseTorrent", code |-> 403, err |-> ""]
          /\ ctl' = ctl
     ELSE /\ resp' = resp
          /\ ctl' = [pc |-> "engine", op |-> "pause", user |-> u, id |-> id,
                     hash |-> torrents[id].info_hash, progress |-> torrents[id].progress]
  /\ UNCHANGED <<now, nextId, restarts, subs, torrents, tokens, usage, registry, client,
                 disk, waiter, updateCh, addReq, packagers, sweep, dl, deadline, sse, rl, mu, book>>

\* TorrentHandler.ResumeTorrent up to its quota check.
ResumeTorrent(u, id) ==
  /\ ctl.pc = "idle"
  /\ IF id \notin RowIds
     THEN /\ resp' = [op |-> "ResumeTorrent", code |-> 404, err |-> ""]
          /\ ctl' = ctl
     ELSE IF ~Owns(torrents[id], u)
     THEN /\ resp' = [op |-> "ResumeTorrent", code |-> 403, err |-> ""]
          /\ ctl' = ctl
     ELSE IF checkQuota(u) # "ok"
     THEN /\ resp' = [op |-> "ResumeTorrent", code |-> 403, err |-> checkQuota(u)]
          /\ ctl' = ctl
     ELSE /\ resp' = resp
          /\ ctl' = [pc |-> "engine", op |-> "resume", user |-> u, id |-> id,
                     hash |-> torrents[id].info_hash, progress |-> torrents[id].progress]
  /\ UNCHANGED <<now, nextId, restarts, subs, torrents, tokens, usage, registry, client,
                 disk, waiter, updateCh, addReq, packagers, sweep, dl, deadline, sse, rl, mu, book>>

\* Engine.PauseTorrent: SetMaxEstablishedConns(0)
\* Engine.ResumeTorrent: SetMaxEstablishedConns(50); DownloadAll()
EnginePauseResume(cl, h, op) ==
  IF op = "pause" THEN [cl EXCEPT ![h].paused = TRUE]
  ELSE [cl EXCEPT ![h].paused = FALSE, ![h].started = TRUE]

OpName(op) == IF op = "pause" THEN "PauseTorrent" ELSE "ResumeTorrent"
StatusWritten(op) == IF op = "pause" THEN "paused" ELSE "downloading"

\* The rest of either handler: the engine call (500 when the Registry has
\* no such torrent), then UpdateTorrentStatus with the progress read at the
\* start.  DownloadAll() on a torrent without metadata is not defined by
\* the client library: the handler dies in it (500) or takes it as a no-op.
PauseResumeFinish(dies) ==
  /\ ctl.pc = "engine"
  /\ CanRLock
  /\ ctl' = IdleCtl
  /\ IF registry[ctl.hash] = NoMT
     THEN /\ resp' = [op |-> OpName(ctl.op), code |-> 500, err |-> ""]
          /\ UNCHANGED <<client, torrents>>
     ELSE IF ctl.op = "resume" /\ ~client[ctl.hash].info
     THEN IF dies
          THEN /\ resp' = [op |-> OpName(ctl.op), code |-> 500, err |-> ""]
               /\ client' = [client EXCEPT ![ctl.hash].paused = FALSE]
               /\ torrents' = torrents
          ELSE /\ resp' = [op |-> OpName(ctl.op), code |-> 200, err |-> ""]
               /\ client' = [client EXCEPT ![ctl.hash].paused = FALSE]
               /\ torrents' = UpdateTorrentStatus(torrents, ctl.id, StatusWritten(ctl.op),
                                                  ctl.progress)
     ELSE /\ resp' = [op |-> OpName(ctl.op), code |-> 200, err |-> ""]
          /\ client' = EnginePauseResume(client, ctl.hash, ctl.op)
          /\ torrents' = UpdateTorrentStatus(torrents, ctl.id, StatusWritten(ctl.op),
                                             ctl.progress)
  /\ UNCHANGED <<now, nextId, restarts, subs, tokens, usage, registry, disk, waiter,
                 updateCh, addReq, packagers, sweep, dl, deadline, sse, rl, mu, book>>

\* ------------------------------------------------ the middleware chain
NoLocals == [user_id |-> "", role |-> ""]

\* AuthService.ValidateAccessToken
ValidateAccessToken(token) == token \in Callers

\* AuthMiddleware: 401 without a valid bearer token in the Authorization
\* header, otherwise the claims go into c.Locals and the chain goes on.
AuthMiddleware(header) ==
  IF header = "none" \/ ~ValidateAccessToken(header)
  THEN [code |-> 401, locals |-> NoLocals]
  ELSE [code |-> 0, locals |-> [user_id |-> header, role |-> RoleOf[header]]]

\* AdminMiddleware
AdminMiddleware(locals) == IF locals.role # "admin" THEN 403 ELSE 0

\* RateLimitMiddleware's key: c.IP(), or the user id found in c.Locals
RateLimitKey(locals, ip) == IF locals.user_id # "" THEN locals.user_id ELSE ip

\* RateLimiter.Allow
Allow(r, key) ==
  IF key \notin DOMAIN r.buckets \/ r.clock - r.buckets[key].lastReset >= Window
  THEN [ok |-> TRUE,
        buckets |-> Insert(r.buckets, key, [tokens |-> Rate - 1, lastReset |-> r.clock])]
  ELSE IF r.buckets[key].tokens > 0
  THEN [ok |-> TRUE, buckets |-> [r.buckets EXCEPT ![key].tokens = @ - 1]]
  ELSE [ok |-> FALSE, buckets |-> r.buckets]

\* Who a request counts for: the user when it is authenticated, else the IP.
Identity(ip, header) == IF ValidateAccessToken(header) THEN header ELSE ip

\* api.Use(RateLimitMiddleware(rateLimiter)): it is the first handler of
\* the /api/v1 chain, AuthMiddleware comes after it, so c.Locals is empty.
RateLimited(ip, header) ==
  LET a == Allow(rl, RateLimitKey(NoLocals, ip)) IN
  [ok |-> a.ok,
   rl |-> IF a.ok THEN [rl EXCEPT !.buckets = a.buckets,
                                  !.admitted[Identity(ip, header)] = @ + 1]
          ELSE rl]

TooManyRequests(op) == [op |-> op, code |-> 429, err |-> "RATE_LIMITED"]

\* SSEHandler.getSSEUserID: middleware.GetUserID asserts c.Locals(user_id)
\* to be a string, which panics when AuthMiddleware has stored none
\* (recover.New() turns the panic into a 500); the token= fallback below it
\* is reached only with a user id in c.Locals that does not parse.
getSSEUserID(locals, header, query) ==
  IF locals.user_id = "" THEN [code |-> 500, user |-> "", role |-> ""]
  ELSE [code |-> 0, user |-> locals.user_id, role |-> locals.role]

\* GET /api/v1/events as routed: RateLimitMiddleware, AuthMiddleware,
\* SSEHandler.Events up to the start of its stream.
EventsRequest(ip, header, query) ==
  LET lim == RateLimited(ip, header)
      auth == AuthMiddleware(header)
      id == getSSEUserID(auth.locals, header, query) IN
  /\ rl' = lim.rl
  /\ IF ~lim.ok
     THEN resp' = TooManyRequests("Events") /\ sse' = sse
     ELSE IF auth.code # 0
     THEN resp' = [op |-> "Events", code |-> auth.code, err |-> ""] /\ sse' = sse
     ELSE IF id.code # 0
     THEN resp' = [op |-> "Events", code |-> id.code, err |-> ""] /\ sse' = sse
     ELSE /\ resp' = [op |-> "Events", code |-> 200, err |-> ""]
          /\ sse' = [sse EXCEPT !.open = @ \cup {[user |-> id.user, all |-> FALSE]}]
  /\ UNCHANGED <<now, nextId, restarts, subs, torrents, tokens, usage, registry, client,
                 disk, waiter, updateCh, addReq, packagers, sweep, dl, deadline, ctl, mu, book>>

\* GET /api/v1/admin/events as routed: RateLimitMiddleware, AuthMiddleware,
\* AdminMiddleware, SSEHandler.EventsAll up to the start of its stream.
EventsAllRequest(ip, header, query) ==
  LET lim == RateLimited(ip, header)
      auth == AuthMiddleware(header)
      id == getSSEUserID(auth.locals, header, query) IN
  /\ rl' = lim.rl
  /\ IF ~lim.ok
     THEN resp' = TooManyRequests("EventsAll") /\ sse' = sse
     ELSE IF auth.code # 0
     THEN resp' = [op |-> "EventsAll", code |-> auth.code, err |-> ""] /\ sse' = sse
     ELSE IF AdminMiddleware(auth.locals) # 0
     THEN resp' = [op |-> "EventsAll", code |-> 403, err |-> ""] /\ sse' = sse
     ELSE IF id.code # 0
     THEN resp' = [op |-> "EventsAll", code |-> id.code, err |-> ""] /\ sse' = sse
     ELSE IF id.role # "admin"
     THEN resp' = [op |-> "EventsAll", code |-> 403, err |-> ""] /\ sse' = sse
     ELSE /\ resp' = [op |-> "EventsAll", code |-> 200, err |-> ""]
          /\ sse' = [sse EXCEPT !.open = @ \cup {[user |-> id.user, all |-> TRUE]}]
  /\ UNCHANGED <<now, nextId, restarts, subs, torrents, tokens, usage, registry, client,
                 disk, waiter, updateCh, addReq, packagers, sweep, dl, deadline, ctl, mu, book>>

\* A minute of wall time passes.
MinutePasses ==
  /\ rl.clock < MaxMinutes
  /\ rl' = [rl EXCEPT !.clock = @ + 1,
                      !.admitted = [c \in Callers \cup RemoteIPs |-> 0]]
  /\ UNCHANGED <<now, nextId, restarts, subs, torrents, tokens, usage, registry, client,
                 disk, waiter, updateCh, addReq, packagers, sweep, dl, resp,
                 deadline, ctl, sse, mu, book>>

\* RateLimiter.cleanupLoop: buckets idle for more than two windows go.
Stale(r) == {k \in DOMAIN r.buckets : r.clock - r.buckets[k].lastReset > 2 * Window}

cleanupLoop ==
  /\ Stale(rl) # {}
  /\ rl' = [rl EXCEPT !.buckets = [k \in (DOMAIN rl.buckets) \ Stale(rl) |-> rl.buckets[k]]]
  /\ UNCHANGED <<now, nextId, restarts, subs, torrents, tokens, usage, registry, client,
                 disk, waiter, updateCh, addReq, packagers, sweep, dl, resp,
                 deadline, ctl, sse, mu, book>>

\* ------------------------------------------------------ the event streams
\* An engine that hands every user every torrent.
GetUserTorrentsUnfiltered(u, peers) ==
  {buildUpdate(h, registry[h], client[h].info, ActivePeers(h, peers[h])) : h \in Managed}

\* Engine.GetUserTorrents
GetUserTorrents(u, peers) ==
  {buildUpdate(h, registry[h], client[h].info, ActivePeers(h, peers[h])) :
     h \in {x \in Managed : registry[x].UserID = u}}

\* Engine.GetActiveTorrents
GetActiveTorrents(peers) ==
  {buildUpdate(h, registry[h], client[h].info, ActivePeers(h, peers[h])) : h \in Managed}

\* One tick of a stream's loop: the torrents event, unless the array is
\* empty (the heartbeat that follows carries no data of the program).
EventsTick(s) ==
  /\ s \in sse.open
  /\ CanRLock
  /\ \E peers \in [InfoHashes -> {0, 1}] :
       LET items == IF s.all THEN GetActiveTorrents(peers)
                    ELSE GetUserTorrents(s.user, peers) IN
       /\ items # {}
       /\ sse' = [sse EXCEPT !.last = [user |-> s.user, all |-> s.all, items |-> items]]
       /\ book' = Stamp(book, {i.InfoHash : i \in items}, "sse")
  /\ UNCHANGED <<now, nextId, restarts, subs, torrents, tokens, usage, registry, client,
                 disk, waiter, updateCh, addReq, packagers, sweep, dl, resp,
                 deadline, ctl, rl, mu>>

\* The client goes away, or the stream's 30 minutes are over.
StreamClose(s) ==
  /\ s \in sse.open
  /\ sse' = [sse EXCEPT !.open = @ \ {s}]
  /\ UNCHANGED <<now, nextId, restarts, subs, torrents, tokens, usage, registry, client,
                 disk, waiter, updateCh, addReq, packagers, sweep, dl, resp,
                 deadline, ctl, rl, mu, book>>

\* ------------------------------------------------------ paths on disk
\* A path is a string: a sequence of characters.  DOWNLOAD_DIR is "d", the
\* working directory also holds the directory "dd" with one file in it.
\* The single file of h1 is "a"; the files of h2 are "b/1" and "b/2", its
\* archive is "b.z" (sanitizeFileName(name) + ".zip").
DownloadDir == <<"d">>
TorrentPaths ==
  [h \in InfoHashes |-> IF h = "h1" THEN {<<"a">>}
                        ELSE {<<"b", "/", "1">>, <<"b", "/", "2">>}]
ZipName == [h \in InfoHashes |-> IF h = "h1" THEN <<"a", ".", "z">> ELSE <<"b", ".", "z">>]
MainFile == [h \in InfoHashes |-> IF h = "h1" THEN <<"a">> ELSE <<"b", "/", "1">>]
OutsideFiles == {<<"d", "d", "/", "d">>}
OutsideDirs == {<<".">>, <<"d", "d">>}

\* strings.Split(str, "/")
RECURSIVE Elements(_)
Elements(str) ==
  IF \A i \in DOMAIN str : str[i] # "/" THEN <<str>>
  ELSE LET i == CHOOSE j \in DOMAIN str :
                  str[j] = "/" /\ \A k \in 1..(j - 1) : str[k] # "/" IN
       <<SubSeq(str, 1, i - 1)>> \o Elements(SubSeq(str, i + 1, Len(str)))

\* The walk of filepath.Clean over the elements: empty and "." elements go,
\* ".." takes the element before it away, stays in front of a relative
\* path and goes in front of a rooted one.
RECURSIVE Resolve(_, _, _)
Resolve(out, els, rooted) ==
  IF els = <<>> THEN out
  ELSE LET e == Head(els) IN
       IF e = <<>> \/ e = <<".">> THEN Resolve(out, Tail(els), rooted)
       ELSE IF e = <<".", ".">>
       THEN IF out # <<>> /\ out[Len(out)] # <<".", ".">>
            THEN Resolve(SubSeq(out, 1, Len(out) - 1), Tail(els), rooted)
            ELSE IF rooted THEN Resolve(out, Tail(els), rooted)
            ELSE Resolve(Append(out, e), Tail(els), rooted)
       ELSE Resolve(Append(out, e), Tail(els), rooted)

\* strings.Join(els, "/")
RECURSIVE Glue(_)
Glue(els) ==
  IF els = <<>> THEN <<>>
  ELSE IF Len(els) = 1 THEN els[1]
  ELSE els[1] \o <<"/">> \o Glue(Tail(els))

\* filepath.Clean
Clean(str) ==
  LET rooted == str # <<>> /\ str[1] = "/"
      body == Glue(Resolve(<<>>, Elements(str), rooted)) IN
  IF rooted THEN <<"/">> \o body
  ELSE IF body = <<>> THEN <<".">> ELSE body

\* filepath.Join(a, b)
Join(a, b) ==
  IF a = <<>> /\ b = <<>> THEN <<>>
  ELSE IF a = <<>> THEN Clean(b)
  ELSE IF b = <<>> THEN Clean(a)
  ELSE Clean(a \o <<"/">> \o b)

\* strings.HasPrefix
HasPrefix(str, prefix) ==
  Len(str) >= Len(prefix) /\ SubSeq(str, 1, Len(prefix)) = prefix

\* The "security check" of Download and CreateZipFromFiles
PathAllowed(filePath, downloadDir) == HasPrefix(Clean(filePath), Clean(downloadDir))

\* The regular files there are: a torrent's files once a piece of it has
\* been written, the archives the packager has stored, the files outside.
FilesOnDisk ==
  UNION {{Join(DownloadDir, f) : f \in TorrentPaths[h]} : h \in {x \in InfoHashes : disk[x] > 0}}
  \cup {Join(DownloadDir, ZipName[torrents[i].info_hash]) : i \in {j \in RowIds : torrents[j].zip}}
  \cup OutsideFiles

\* The directories there are.
DirsOnDisk ==
  {DownloadDir} \cup OutsideDirs
  \cup (IF disk["h2"] > 0 THEN {Join(DownloadDir, <<"b">>)} ELSE {})

\* ------------------------------------------- POST /torrents/:id/token
\* TorrentHandler.CreateDownloadToken by caller u for row id; k is the
\* random token auth.GenerateDownloadToken returns.
\* filePath and useZip are the body's file_path and use_zip.
CreateDownloadTokenFor(u, id, k, filePath, useZip) ==
  /\ k \notin DOMAIN tokens
  /\ IF id \notin RowIds
     THEN /\ resp' = [op |-> "CreateDownloadToken", code |-> 404, err |-> ""]
          /\ tokens' = tokens
     ELSE IF ~Owns(torrents[id], u)
     THEN /\ resp' = [op |-> "CreateDownloadToken", code |-> 403, err |-> ""]
          /\ tokens' = tokens
     ELSE /\ tokens' = Insert(tokens, k,
                         [torrent_id |-> id, expires_at |-> now + TokenLifetime,
                          max_downloads |-> TokenMaxDownloads, download_count |-> 0,
                          file_path |-> IF useZip /\ torrents[id].zip
                                        THEN ZipName[torrents[id].info_hash]
                                        ELSE filePath])
          /\ resp' = [op |-> "CreateDownloadToken", code |-> 200, err |-> ""]
  /\ UNCHANGED <<now, nextId, restarts, subs, torrents, usage, registry, client, disk,
                 waiter, updateCh, addReq, packagers, sweep, dl,
                 deadline, ctl, sse, rl, mu, book>>

\* The request the web client sends: the torrent's first file.
CreateDownloadToken(u, id, k) ==
  CreateDownloadTokenFor(u, id, k,
                         IF id \in RowIds THEN MainFile[torrents[id].info_hash] ELSE <<>>,
                         FALSE)

\* ------------------------------------------------- GET /download/:token
\* time.Now().After(dt.ExpiresAt)
TokenExpired(dt, t) == t > dt.expires_at

\* dt.DownloadCount >= dt.MaxDownloads
TokenExhausted(dt) == dt.download_count >= dt.max_downloads

\* TorrentHandler.Download up to its checks: GetDownloadToken, the expiry
\* and the download count of the row just read.
DownloadLookup(d, k) ==
  /\ dl[d].pc = "idle"
  /\ IF k \notin DOMAIN tokens
     THEN /\ resp' = [op |-> "Download", code |-> 404, err |-> "invalid or expired token"]
          /\ dl' = dl
     ELSE IF TokenExpired(tokens[k], now)
     THEN /\ resp' = [op |-> "Download", code |-> 410, err |-> "token expired"]
          /\ dl' = dl
     ELSE IF TokenExhausted(tokens[k])
     THEN /\ resp' = [op |-> "Download", code |-> 410, err |-> "download limit exceeded"]
          /\ dl' = dl
     ELSE /\ resp' = resp
          /\ dl' = [dl EXCEPT ![d] = [pc |-> "checked", token |-> k,
                                      torrent_id |-> tokens[k].torrent_id,
                                      file_path |-> tokens[k].file_path]]
  /\ UNCHANGED <<now, nextId, restarts, subs, torrents, tokens, usage, registry, client,
                 disk, waiter, updateCh, addReq, packagers, sweep,
                 deadline, ctl, sse, rl, mu, book>>

\* Database.IncrementDownloadCount
IncrementDownloadCount(tk, k) ==
  IF k \in DOMAIN tk THEN [tk EXCEPT ![k].download_count = @ + 1] ELSE tk

\* Engine.GetFileReader succeeds: the torrent is in the Registry, has its
\* metadata and has a file of that path.
GetFileReader(h, relativePath) ==
  registry[h] # NoMT /\ client[h].info /\ relativePath \in TorrentPaths[h]

\* The answer of Download once the record is read: the torrent's file
\* streamed from the engine, or else the file of that path on disk.  `file`
\* is where the bytes sent are stored, `torrent` the record's info hash.
\* c.SendFile of a directory sends no file (isDir: its answer is an error).
Served(h, filePath, isDir) ==
  LET full == Join(DownloadDir, filePath) IN
  IF GetFileReader(h, filePath)
  THEN [op |-> "Download", code |-> 200, err |-> "", torrent |-> h, file |-> full]
  ELSE IF ~PathAllowed(full, DownloadDir)
  THEN [op |-> "Download", code |-> 403, err |-> "invalid file path"]
  ELSE IF full \notin FilesOnDisk \cup DirsOnDisk
  THEN [op |-> "Download", code |-> 404, err |-> "file not found on disk"]
  ELSE IF full \in DirsOnDisk
  THEN [op |-> "Download", code |-> isDir, err |-> "directory"]
  ELSE [op |-> "Download", code |-> 200, err |-> "", torrent |-> h, file |-> full]

\* The rest of the handler: GetTorrent, IncrementDownloadCount, the file.
\* The token row is the one read by the lookup.
DownloadServe(d) ==
  /\ dl[d].pc = "checked"
  /\ dl' = [dl EXCEPT ![d] = IdleDl]
  /\ IF dl[d].torrent_id \notin RowIds
     THEN /\ resp' = [op |-> "Download", code |-> 404, err |-> "torrent not found"]
          /\ tokens' = tokens
     ELSE /\ tokens' = IncrementDownloadCount(tokens, dl[d].token)
          /\ \E isDir \in {403, 404} :
               resp' = Served(torrents[dl[d].torrent_id].info_hash, dl[d].file_path, isDir)
  /\ UNCHANGED <<now, nextId, restarts, subs, torrents, usage, registry, client, disk,
                 waiter, updateCh, addReq, packagers, sweep,
                 deadline, ctl, sse, rl, mu, book>>

\* ------------------------------------------------------- Range requests
\* A Range header is a string over a small alphabet: "B" stands for the
\* prefix bytes=, "x" for any character that is neither a digit nor a dash.
RangeChars == {"B", "0", "1", "2", "-", "x"}
RangeHeaders == UNION {[1..n -> RangeChars] : n \in 1..MaxHeaderLen}
FileLengths == 1..MaxFileLen

Digit == [c \in {"0", "1", "2"} |-> IF c = "0" THEN 0 ELSE IF c = "1" THEN 1 ELSE 2]
IsNumber(str) == str # <<>> /\ \A i \in DOMAIN str : str[i] \in DOMAIN Digit

RECURSIVE DecimalValue(_)
DecimalValue(str) ==
  IF str = <<>> THEN 0
  ELSE 10 * DecimalValue(SubSeq(str, 1, Len(str) - 1)) + Digit[str[Len(str)]]

\* strconv.ParseInt(s, 10, 64) with its error dropped: 0 on a syntax error
ParseInt(str) == IF IsNumber(str) THEN DecimalValue(str) ELSE 0

\* strings.TrimPrefix(rangeHeader, "bytes=")
TrimPrefix(str) == IF str # <<>> /\ Head(str) = "B" THEN Tail(str) ELSE str

\* strings.Split(s, "-")
RECURSIVE Split(_)
Split(str) ==
  IF \A i \in DOMAIN str : str[i] # "-" THEN <<str>>
  ELSE LET k == CHOOSE i \in DOMAIN str :
                  str[i] = "-" /\ \A j \in 1..(i - 1) : str[j] # "-" IN
       <<SubSeq(str, 1, k - 1)>> \o Split(SubSeq(str, k + 1, Len(str)))

RangeNotSatisfiable == [code |-> 416, from |-> Null, to |-> Null, of |-> Null, body |-> 0]

\* TorrentHandler.handleRangeRequest on a reader of size bytes
handleRangeRequest(size, rangeHeader) ==
  LET parts == Split(TrimPrefix(rangeHeader)) IN
  IF Len(parts) # 2 THEN RangeNotSatisfiable
  ELSE LET start == ParseInt(parts[1])
           end == IF parts[2] # <<>> THEN ParseInt(parts[2]) ELSE size - 1 IN
       IF start > end \/ start < 0 \/ end >= size THEN RangeNotSatisfiable
       ELSE [code |-> 206, from |-> start, to |-> end, of |-> size,
             body |-> end - start + 1]

\* TorrentHandler.Download on its engine branch, for a request with a Range
\* header: the file of the token has size bytes.
DownloadRange(size, rangeHeader) ==
  /\ resp' = [op |-> "Download", code |-> handleRangeRequest(size, rangeHeader).code,
              err |-> "", size |-> size, range |-> rangeHeader,
              sent |-> handleRangeRequest(size, rangeHeader)]
  /\ UNCHANGED <<now, nextId, restarts, subs, torrents, tokens, usage, registry, client,
                 disk, waiter, updateCh, addReq, packagers, sweep, dl,
                 deadline, ctl, sse, rl, mu, book>>

\* ---------------------------------------------------- the specifications
\* The lifecycle of a torrent: accepted, downloaded, reduced into the store,
\* packaged, swept, reloaded after a restart.  One add request at a time,
\* MaxRows rows in the table.
Next ==
  \/ \E k \in {"magnet", "upload"}, h \in InfoHashes :
       Cardinality(RowIds) < MaxRows /\ AddRequest("a1", "u1", k, h)
  \/ AddCheckQuota("a1")
  \/ AddEngine("a1")
  \/ AddSave("a1")
  \/ \E h \in InfoHashes : MetadataArrives(h)
  \/ \E h \in InfoHashes : WaiterGotInfo(h)
  \/ \E h \in InfoHashes : DownloadProgress(h)
  \/ Tick
  \/ Reduce
  \/ \E i \in Ids, ok \in BOOLEAN : PackagerFinish(i, ok)
  \/ SweepStart
  \/ \E ok \in BOOLEAN : SweepStep(ok)
  \/ SweepEnd
  \/ Restart
  \/ \E p \in PlanInputs : UpdateSubscription("u1", p)
  \/ AdvanceTime

Spec == Init /\ [][Next]_vars

\* The add endpoints under concurrency: two requests in flight, every kind
\* of body, removal by the owner, plan changes, restarts.
NextAdd ==
  \/ \E a \in AddSlots, u \in Users, k \in AddKinds, h \in InfoHashes : AddRequest(a, u, k, h)
  \/ \E a \in AddSlots : AddCheckQuota(a)
  \/ \E a \in AddSlots : AddEngine(a)
  \/ \E a \in AddSlots : AddExists(a)
  \/ \E a \in AddSlots : AddSave(a)
  \/ \E u \in Users, i \in Ids, ok \in BOOLEAN : DeleteTorrent(u, i, TRUE, ok)
  \/ \E u \in Users, p \in PlanInputs : UpdateSubscription(u, p)
  \/ Restart

SpecAdd == Init /\ [][NextAdd]_vars

\* The token store: rows added, tokens minted and consumed by concurrent
\* downloads, rows removed, time passing.
NextTok ==
  \/ \E u \in Users, h \in InfoHashes :
       /\ Cardinality(RowIds) < MaxRows \/ AlreadyManaged(registry, h)
       /\ AddRequest("a1", u, "magnet", h)
  \/ AddCheckQuota("a1")
  \/ AddEngine("a1")
  \/ AddExists("a1")
  \/ AddSave("a1")
  \/ \E u \in Users, i \in Ids, k \in TokenNames : CreateDownloadToken(u, i, k)
  \/ \E d \in DlSlots, k \in TokenNames : DownloadLookup(d, k)
  \/ \E d \in DlSlots : DownloadServe(d)
  \/ \E u \in Users, i \in Ids : DeleteTorrent(u, i, TRUE, TRUE)
  \/ AdvanceTime

SpecTok == Init /\ [][NextTok]_vars

\* A process restarted more than once over one torrent: what a reload makes
\* of records that were downloading or completed when the process stopped.
NextReload ==
  \/ \E k \in {"magnet", "upload"} :
       Cardinality(RowIds) < MaxRows /\ AddRequest("a1", "u1", k, "h2")
  \/ AddCheckQuota("a1")
  \/ AddEngine("a1")
  \/ AddSave("a1")
  \/ MetadataArrives("h2")
  \/ WaiterGotInfo("h2")
  \/ DownloadProgress("h2")
  \/ Tick
  \/ Reduce
  \/ \E i \in Ids, ok \in BOOLEAN : PackagerFinish(i, ok)
  \/ RestartUpTo(MaxReloads)
  \/ AdvanceTime

SpecReload == Init /\ [][NextReload]_vars

\* Pause and resume requests of the owner racing the reducer's commits, over
\* one torrent of two pieces, with a restart.
NextPause ==
  \/ \E k \in {"magnet", "upload"} :
       Cardinality(RowIds) < MaxRows /\ AddRequest("a1", "u1", k, "h1")
  \/ AddCheckQuota("a1")
  \/ AddEngine("a1")
  \/ AddSave("a1")
  \/ MetadataArrives("h1")
  \/ WaiterGotInfo("h1")
  \/ DownloadProgress("h1")
  \/ Tick
  \/ Reduce
  \/ \E i \in Ids : PauseTorrent("u1", i)
  \/ \E i \in Ids : ResumeTorrent("u1", i)
  \/ \E dies \in BOOLEAN : PauseResumeFinish(dies)
  \/ Restart

SpecPause == Init /\ [][NextPause]_vars

\* The per-record endpoints called by every caller, owner or not, admin or
\* not, on every id.
NextOwn ==
  \/ \E u \in Users, h \in InfoHashes :
       Cardinality(RowIds) < MaxRows /\ AddRequest("a1", u, "upload", h)
  \/ AddCheckQuota("a1")
  \/ AddEngine("a1")
  \/ AddSave("a1")
  \/ \E c \in Callers, i \in Ids : GetTorrent(c, RoleOf[c], i)
  \/ \E c \in Callers, i \in Ids, df, ok \in BOOLEAN : DeleteTorrentBy(c, RoleOf[c], i, df, ok)
  \/ \E c \in Callers, i \in Ids : PauseTorrent(c, i)
  \/ \E c \in Callers, i \in Ids : ResumeTorrent(c, i)
  \/ \E dies \in BOOLEAN : PauseResumeFinish(dies)
  \/ \E c \in Callers, i \in Ids, k \in TokenNames : CreateDownloadToken(c, i, k)

SpecOwn == Init /\ [][NextOwn]_vars

\* The event streams over the torrents of two users: streams opened by
\* every kind of caller within one minute, and their ticks.
NextSSE ==
  \/ \E u \in Users, h \in InfoHashes : AddRequest("a1", u, "upload", h)
  \/ AddCheckQuota("a1")
  \/ AddEngine("a1")
  \/ AddExists("a1")
  \/ AddSave("a1")
  \/ \E header \in Credentials : EventsRequest("ip1", header, "none")
  \/ \E header \in Credentials : EventsAllRequest("ip1", header, "none")
  \/ \E s \in sse.open : EventsTick(s)
  \/ \E s \in sse.open : StreamClose(s)

SpecSSE == Init /\ [][NextSSE]_vars

\* The API's front door: requests from every address with every kind of
\* credential, sent in the header or in the query, minute after minute.
NextApi ==
  \/ \E ip \in RemoteIPs, header, query \in Credentials :
       (header = "none" \/ query = "none") /\ EventsRequest(ip, header, query)
  \/ \E ip \in RemoteIPs, header, query \in Credentials :
       (header = "none" \/ query = "none") /\ EventsAllRequest(ip, header, query)
  \/ \E s \in sse.open : StreamClose(s)
  \/ MinutePasses
  \/ cleanupLoop

SpecApi == Init /\ [][NextApi]_vars

\* The updater's walk against handlers that add torrents.  Every task that
\* can take a step takes it in the end.
NextLatch ==
  \/ \E u \in Users, h \in InfoHashes : AddRequest("a1", u, "upload", h)
  \/ AddCheckQuota("a1")
  \/ LockWaits("a1")
  \/ AddEngine("a1")
  \/ AddExists("a1")
  \/ AddSave("a1")
  \/ TickRLock
  \/ \E peers \in {0, 1} : TickSend(peers)
  \/ TickRUnlock
  \/ Reduce

SpecLatch ==
  /\ Init /\ [][NextLatch]_vars
  /\ WF_vars(AddCheckQuota("a1")) /\ WF_vars(AddEngine("a1"))
  /\ WF_vars(AddExists("a1")) /\ WF_vars(AddSave("a1"))
  /\ WF_vars(\E peers \in {0, 1} : TickSend(peers)) /\ WF_vars(TickRUnlock)
  /\ WF_vars(Reduce)

\* The quota gate under concurrency: one user, whose plan does not change,
\* sends add and upload requests that overlap, while the reducer commits.
NextQuota ==
  \/ \E a \in AddSlots, k \in {"magnet", "upload"}, h \in InfoHashes :
       AddRequest(a, "u1", k, h)
  \/ \E a \in AddSlots : AddCheckQuota(a)
  \/ \E a \in AddSlots : AddEngine(a)
  \/ \E a \in AddSlots : AddExists(a)
  \/ \E a \in AddSlots : AddSave(a)
  \/ Reduce

SpecQuota == Init /\ [][NextQuota]_vars

\* Who writes a ManagedTorrent's lastUpdate: the updater's ticks beside the
\* detail endpoint and an event stream reading the status of one torrent.
NextBook ==
  \/ \E k \in {"magnet", "upload"} :
       Cardinality(RowIds) < MaxRows /\ AddRequest("a1", "u1", k, "h1")
  \/ AddCheckQuota("a1")
  \/ AddEngine("a1")
  \/ AddSave("a1")
  \/ MetadataArrives("h1")
  \/ WaiterGotInfo("h1")
  \/ DownloadProgress("h1")
  \/ Tick
  \/ Reduce
  \/ \E i \in Ids : GetTorrent("u1", "user", i)
  \/ EventsRequest("ip1", "u1", "none")
  \/ \E s \in sse.open : EventsTick(s)
  \/ \E s \in sse.open : StreamClose(s)

SpecBook == Init /\ [][NextBook]_vars

\* Two users with one torrent each in the same download directory; tokens
\* are minted with the file_path of any file there is and used.
TokenPaths == UNION {TorrentPaths[h] \cup {ZipName[h]} : h \in InfoHashes}

NextServe ==
  \/ \E u \in Users, h \in InfoHashes :
       /\ (u = "u1") = (h = "h1")
       /\ ~AlreadyManaged(registry, h)
       /\ AddRequest("a1", u, "upload", h)
  \/ AddCheckQuota("a1")
  \/ AddEngine("a1")
  \/ AddSave("a1")
  \/ \E h \in InfoHashes : DownloadProgress(h)
  \/ \E u \in Users, i \in Ids, k \in TokenNames, filePath \in TokenPaths :
       CreateDownloadTokenFor(u, i, k, filePath, FALSE)
  \/ \E k \in TokenNames : DownloadLookup("d1", k)
  \/ DownloadServe("d1")

SpecServe == Init /\ [][NextServe]_vars

\* One torrent on disk and one token of its owner, minted with any string
\* as file_path and used once.
PathChars == {"/", ".", "d"}
FilePaths == TokenPaths \cup UNION {[1..n -> PathChars] : n \in 0..MaxPathLen}

NextPath ==
  \/ Cardinality(RowIds) < MaxRows /\ AddRequest("a1", "u1", "upload", "h1")
  \/ AddCheckQuota("a1")
  \/ AddEngine("a1")
  \/ AddSave("a1")
  \/ disk["h1"] = 0 /\ DownloadProgress("h1")
  \/ \E i \in Ids, filePath \in FilePaths :
       disk["h1"] > 0 /\ CreateDownloadTokenFor("u1", i, "k1", filePath, FALSE)
  \/ /\ "k1" \in DOMAIN tokens => tokens["k1"].download_count = 0
     /\ DownloadLookup("d1", "k1")
  \/ DownloadServe("d1")

SpecPath == Init /\ [][NextPath]_vars

\* One info hash added by u1, completed after a restart, removed, and added
\* again by u2, while the hourly sweep works through the list of expired
\* records it read.
NextPair ==
  \/ \E u \in Users : (u = "u1") = (restarts = 0) /\ AddRequest("a1", u, "upload", "h1")
  \/ AddCheckQuota("a1")
  \/ AddEngine("a1")
  \/ AddExists("a1")
  \/ AddSave("a1")
  \/ MetadataArrives("h1")
  \/ WaiterGotInfo("h1")
  \/ DownloadProgress("h1")
  \/ Tick
  \/ Reduce
  \/ Restart
  \/ AdvanceTime
  \/ \E u \in Users, i \in Ids : DeleteTorrent(u, i, TRUE, TRUE)
  \/ SweepStart
  \/ SweepStep(TRUE)
  \/ SweepEnd

SpecPair == Init /\ [][NextPair]_vars

\* The add endpoints over a store whose insert can fail, with the updater
\* and the reducer running.
NextFault ==
  \/ \E u \in Users, k \in {"magnet", "upload"}, h \in InfoHashes : AddRequest("a1", u, k, h)
  \/ AddCheckQuota("a1")
  \/ AddEngine("a1")
  \/ AddExists("a1")
  \/ AddSave("a1")
  \/ AddSaveFails("a1")
  \/ Tick
  \/ Reduce

SpecFault == Init /\ [][NextFault]_vars

\* The reducer over a store whose status writes can fail: one torrent of
\* two files, reloaded after a restart, downloaded and reduced.
NextStore ==
  \/ \E k \in {"magnet", "upload"} :
       Cardinality(RowIds) < MaxRows /\ AddRequest("a1", "u1", k, "h2")
  \/ AddCheckQuota("a1")
  \/ AddEngine("a1")
  \/ AddSave("a1")
  \/ MetadataArrives("h2")
  \/ WaiterGotInfo("h2")
  \/ DownloadProgress("h2")
  \/ Tick
  \/ Reduce
  \/ ReduceStatusFails
  \/ \E i \in Ids, ok \in BOOLEAN : PackagerFinish(i, ok)
  \/ Restart

SpecStore == Init /\ [][NextStore]_vars

\* One Range request, on a file of any length with any header: the answer
\* depends on nothing else.
NextRange ==
  \E size \in FileLengths, rangeHeader \in RangeHeaders :
    resp = NoResp /\ DownloadRange(size, rangeHeader)

SpecRange == Init /\ [][NextRange]_vars

\* A magnet whose metadata is slow: the 5-minute deadline of the waiting
\* goroutine against the updater, the reducer and a restart.  The reducer
\* and the updater are loops that keep running, a handler runs to its end,
\* a blocked send goes through once there is room: weak fairness on each.
\* When the metadata arrives is up to the swarm.
NextDeadline ==
  \/ Cardinality(RowIds) < MaxRows /\ AddRequest("a1", "u1", "magnet", "h2")
  \/ AddCheckQuota("a1")
  \/ AddEngine("a1")
  \/ AddSave("a1")
  \/ MetadataArrives("h2")
  \/ WaiterGotInfo("h2")
  \/ MetadataDeadline("h2")
  \/ DeadlineSendCompletes("h2")
  \/ Tick
  \/ Reduce
  \/ Restart

SpecDeadline ==
  /\ Init /\ [][NextDeadline]_vars
  /\ WF_vars(AddCheckQuota("a1")) /\ WF_vars(AddEngine("a1")) /\ WF_vars(AddSave("a1"))
  /\ WF_vars(DeadlineSendCompletes("h2"))
  /\ WF_vars(Tick) /\ WF_vars(Reduce)

\* ------------------------------------------------------------ properties
\* The add request that inserted the ManagedTorrent of h has not answered yet.
AddPending(h) == \E a \in AddSlots : addReq[a].pc = "save" /\ addReq[a].hash = h

\* C1: once the add request has answered 201, every ManagedTorrent of the
\* Registry has a torrent record with the same id and the same info_hash.
C1_ManagedTorrentHasRecord ==
  \A h \in InfoHashes :
    (registry[h] # NoMT /\ ~AddPending(h)) =>
      \E i \in RowIds : torrents[i].id = registry[h].ID /\ torrents[i].info_hash = h

\* The step is the reducer taking update u off the channel.
ReducerTakes(u) ==
  /\ updateCh # <<>>
  /\ u = Head(updateCh)
  /\ updateCh' = Tail(updateCh)
  /\ restarts' = restarts

\* C2: when the reducer processes a completion update of a ManagedTorrent
\* that was added through the add endpoints and whose record exists, that
\* record is completed afterwards: status completed, progress 100, and
\* completed_at and expires_at set.
C2_CompletionCommitted ==
  [][ \A h \in InfoHashes :
        ( /\ updateCh # <<>>
          /\ ReducerTakes(Head(updateCh))
          /\ IsCompletion(Head(updateCh))
          /\ Head(updateCh).InfoHash = h
          /\ registry[h] # NoMT
          /\ registry[h].via = "add"
          /\ registry[h].ID = Head(updateCh).ID
          /\ UserRows(registry[h].UserID, h) # {} )
        => \E i \in DOMAIN torrents' :
             /\ torrents'[i].info_hash = h
             /\ torrents'[i].user_id = registry[h].UserID
             /\ torrents'[i].status = "completed"
             /\ torrents'[i].progress = 100
             /\ torrents'[i].completed_at # Null
             /\ torrents'[i].expires_at # Null ]_vars

\* C3: after a record's completion commit its completed_at and expires_at
\* never change, whatever updates are reduced and plans changed afterwards.
C3_CompletionDatedOnce ==
  [][ \A i \in (DOMAIN torrents) \cap (DOMAIN torrents') :
        torrents[i].completed_at # Null =>
          /\ torrents'[i].completed_at = torrents[i].completed_at
          /\ torrents'[i].expires_at = torrents[i].expires_at ]_vars

\* C4: no download token is ever counted beyond its max_downloads.
C4_CountWithinMax ==
  \A k \in DOMAIN tokens : tokens[k].download_count <= tokens[k].max_downloads

\* The validity of a token as the specification words it.
TokenValid(k) ==
  /\ k \in DOMAIN tokens
  /\ now < tokens[k].expires_at
  /\ tokens[k].download_count < tokens[k].max_downloads

\* C5: a download request passes the handler's checks only for a token that
\* exists with now < expires_at and download_count < max_downloads; an
\* unknown token is answered 404, an expired or exhausted one 410 with its
\* download_count unchanged.
C5_AdmitsOnlyValidToken ==
  [][ \A d \in DlSlots, k \in TokenNames :
        DownloadLookup(d, k) =>
          /\ dl'[d].pc = "checked" => TokenValid(k)
          /\ k \notin DOMAIN tokens => resp'.code = 404
          /\ (k \in DOMAIN tokens /\ ~TokenValid(k)) =>
               (resp'.code = 410 /\ tokens' = tokens) ]_vars

\* The download_completed usage rows logged for record i.
UsageRowsOf(i) ==
  {n \in 1..Len(usage) : usage[n].action = "download_completed" /\ usage[n].tid = i}

\* C6: a record has at most one download_completed usage row, and a
\* completed record exactly one, of bytes = total_size.
C6_OneUsageRowPerRecord ==
  \A i \in Ids :
    /\ Cardinality(UsageRowsOf(i)) <= 1
    /\ (i \in RowIds /\ torrents[i].completed_at # Null) =>
         /\ Cardinality(UsageRowsOf(i)) = 1
         /\ \A n \in UsageRowsOf(i) : usage[n].bytes = torrents[i].total_size

\* C7: at most one packager runs for a record at any time.
C7_OnePackagerPerRecord == \A i \in Ids : packagers[i] <= 1

\* The step is add request a leaving stage pc of its handler.
HandlerLeaves(a, pc) ==
  /\ addReq[a].pc = pc
  /\ addReq'[a] # addReq[a]
  /\ restarts' = restarts

C9_DuplicateAdd ==
  [][ \A a \in AddSlots :
        /\ (HandlerLeaves(a, "engine") /\ registry[addReq[a].hash] # NoMT) =>
             /\ registry' = registry
             /\ torrents' = torrents
             /\ addReq'[a].pc = "exists"
             /\ addReq'[a].id = registry[addReq[a].hash].ID
        /\ HandlerLeaves(a, "exists") =>
             /\ registry' = registry
             /\ torrents' = torrents
             /\ addReq'[a] = IdleReq
             /\ resp' = IF UserRows(addReq[a].user, addReq[a].hash) # {}
                        THEN [op |-> OpOf(addReq[a].kind), code |-> 200, err |-> ""]
                        ELSE [op |-> OpOf(addReq[a].kind), code |-> 409,
                              err |-> "TORRENT_EXISTS"] ]_vars

\* A second user's add of a managed info hash was answered 409 and the
\* Registry entry is still the first user's.
C9_Conflict ==
  /\ resp.code = 409
  /\ resp.err = "TORRENT_EXISTS"
  /\ \E h \in InfoHashes, i \in RowIds :
       /\ registry[h] # NoMT
       /\ torrents[i].info_hash = h
       /\ torrents[i].user_id = registry[h].UserID
  /\ Cardinality(RowIds) = 1

C11_ReloadKeepsCompleted ==
  [][ \A i \in (DOMAIN torrents) \cap (DOMAIN torrents') :
        LET r == torrents[i] IN
        /\ restarts' = restarts + 1 =>
             /\ r.status \in {"failed", "completed"} => registry'[r.info_hash].ID # i
             /\ r.status = "downloading" => registry'[r.info_hash].ID = i
        /\ (restarts >= 1 /\ r.status = "failed") => torrents'[i] = r
        /\ (restarts >= 1 /\ r.status = "completed" /\ ~client'[r.info_hash].started) =>
             /\ torrents'[i].status = "completed"
             /\ torrents'[i].completed_at = r.completed_at ]_vars

\* C12: when the 5-minute metadata deadline of a torrent has passed (for a
\* magnet just added, or a record the reloader rehydrated), the torrent's
\* record eventually has status failed with an error message.
RecordFailed(h) ==
  \E i \in RowIds : /\ torrents[i].info_hash = h
                    /\ torrents[i].status = "failed"
                    /\ torrents[i].error_message # ""

C12_DeadlineFailsRecord ==
  \A h \in InfoHashes : (deadline[h] = "passed") ~> RecordFailed(h)

\* C15: no send on the update channel blocks: the channel never holds more
\* than its capacity and no goroutine waits on a send while it holds the
\* engine's lock, so ticks and Registry operations are never shut out.
C15_SendsNeverBlock ==
  /\ Len(updateCh) <= UpdateChCap
  /\ ~MuHeld

\* C14: a committed write to a torrent record never stores a lower progress
\* than the record held before it, whoever writes: the reducer, a pause or a
\* resume request, before or after a restart.
C14_ProgressNeverDrops ==
  [][ \A i \in (DOMAIN torrents) \cap (DOMAIN torrents') :
        torrents'[i].progress >= torrents[i].progress ]_vars

\* C16: a record that has had its completion commit has progress 100 exactly
\* when its status is completed or seeding.
C16_ProgressMatchesStatus ==
  \A i \in RowIds :
    torrents[i].completed_at # Null =>
      (torrents[i].progress = 100 <=> torrents[i].status \in {"completed", "seeding"})

\* C17: a request on a record by a caller who is not its owner is answered
\* 403 and changes neither the torrents table, the Registry nor the token
\* table: always for pause, resume and token-mint, and for GET and DELETE
\* when the caller's role is not admin.
Rejected ==
  /\ resp'.code = 403
  /\ torrents' = torrents
  /\ registry' = registry
  /\ tokens' = tokens

C17_NonOwnerRejected ==
  [][ \A c \in Callers, i \in RowIds :
        torrents[i].user_id # c =>
          /\ PauseTorrent(c, i) => Rejected
          /\ ResumeTorrent(c, i) => Rejected
          /\ (\E k \in TokenNames : CreateDownloadToken(c, i, k)) => Rejected
          /\ RoleOf[c] # "admin" =>
               /\ GetTorrent(c, RoleOf[c], i) => Rejected
               /\ (\E df, ok \in BOOLEAN : DeleteTorrentBy(c, RoleOf[c], i, df, ok))
                    => Rejected ]_vars

\* A DELETE was refused with 403 while the record, its ManagedTorrent and a
\* download token of it exist; the record is not the admin's either.
C17_DeleteRefused ==
  /\ resp = [op |-> "DeleteTorrent", code |-> 403, err |-> ""]
  /\ \E i \in RowIds :
       /\ registry[torrents[i].info_hash].ID # NoId
       /\ \E k \in DOMAIN tokens : tokens[k].torrent_id = i

\* C18: every projection in a torrents event written to user u's /events
\* stream is that of a ManagedTorrent whose UserID is u, and a stream of
\* /admin/events is open only for a caller whose role is admin.
C18_StreamsFiltered ==
  [][ /\ (sse'.last # sse.last /\ ~sse'.last.all) =>
           \A it \in sse'.last.items : registry[it.InfoHash].UserID = sse'.last.user
      /\ \A s \in sse'.open : s.all => RoleOf[s.user] = "admin" ]_vars

\* A user's stream has carried a torrents event while the Registry held a
\* torrent of another user, and an admin stream is open.
C18_EventBesideForeignTorrent ==
  /\ ~sse.last.all
  /\ sse.last.items # {}
  /\ \E h \in Managed : registry[h].UserID # sse.last.user
  /\ \E s \in sse.open : s.all

\* C19: GET /events and GET /admin/events with a valid token only in the
\* token= query parameter are not answered 401.
C19_QueryTokenAccepted ==
  [][ \A ip \in RemoteIPs, c \in Callers :
        /\ EventsRequest(ip, "none", c) => resp'.code # 401
        /\ EventsAllRequest(ip, "none", c) => resp'.code # 401 ]_vars

\* C20: within one minute the limiter admits at most Rate requests of one
\* identity: of one user when the requests are authenticated, of one remote
\* address otherwise.
C20_RatePerIdentity ==
  \A who \in Callers \cup RemoteIPs : rl.admitted[who] <= Rate

\* C21: a header bytes=a-b with 0 <= a <= b < L is answered 206 with
\* Content-Range bytes a-b/L and a body of b - a + 1 bytes; a header
\* bytes=s-e whose start is missing or not a number, or whose numbers have
\* a > b or b >= L, is answered 416.
RangeStart(h) == Split(Tail(h))[1]
RangeEnd(h) == Split(Tail(h))[2]
IsRangeForm(h) == Head(h) = "B" /\ Len(Split(Tail(h))) = 2

WellFormedRange(h, L) ==
  /\ IsRangeForm(h)
  /\ IsNumber(RangeStart(h)) /\ IsNumber(RangeEnd(h))
  /\ DecimalValue(RangeStart(h)) <= DecimalValue(RangeEnd(h))
  /\ DecimalValue(RangeEnd(h)) < L

InvalidRange(h, L) ==
  /\ IsRangeForm(h)
  /\ \/ ~IsNumber(RangeStart(h))
     \/ /\ IsNumber(RangeStart(h)) /\ IsNumber(RangeEnd(h))
        /\ \/ DecimalValue(RangeStart(h)) > DecimalValue(RangeEnd(h))
           \/ DecimalValue(RangeEnd(h)) >= L

C21_RangeAnswer ==
  "range" \in DOMAIN resp =>
    /\ WellFormedRange(resp.range, resp.size) =>
         resp.sent = [code |-> 206, from |-> DecimalValue(RangeStart(resp.range)),
                      to |-> DecimalValue(RangeEnd(resp.range)), of |-> resp.size,
                      body |-> DecimalValue(RangeEnd(resp.range))
                               - DecimalValue(RangeStart(resp.range)) + 1]
    /\ InvalidRange(resp.range, resp.size) => resp.sent.code = 416

\* C22: every tick of the updater finishes: once it has taken the shared
\* latch for its walk, it releases it in the end.
C22_TickFinishes == ReadHeld ~> ~ReadHeld

\* C23: while a user's plan is unchanged, the number of the user's records
\* with status pending or downloading never exceeds the plan's
\* concurrent_limit, however the user's add and upload requests interleave
\* with each other and with the reducer's commits.
C23_WithinConcurrentLimit ==
  \A u \in Users : CountActiveTorrents(u) <= Plans[subs[u]].ConcurrentLimit

\* C24: the tick bookkeeping of a ManagedTorrent (lastUpdate) is written by
\* the updater task only: whenever its last writer changes, the new writer
\* is the updater (or the ManagedTorrent is new and nobody has written yet).
\* No status read of a handler or of an event stream writes it.
C24_OnlyUpdaterWrites ==
  [][\A h \in InfoHashes : book'[h] # book[h] => book'[h] \in {"", "updater"}]_vars

\* C25: a download through a token minted for torrent T sends only a file
\* that belongs to T, one of T's file paths or T's archive, whatever
\* file_path the token was minted with.
C25_TokenServesOwnFile ==
  (resp.op = "Download" /\ resp.code = 200) =>
    resp.file \in {Join(DownloadDir, f) :
                     f \in TorrentPaths[resp.torrent] \cup {ZipName[resp.torrent]}}

\* The file of path str lies inside directory dir: element by element, the
\* canonical path goes through dir and on.
Within(str, dir) ==
  LET e == Elements(Clean(str))
      d == Elements(Clean(dir)) IN
  Len(e) > Len(d) /\ SubSeq(e, 1, Len(d)) = d

\* C26: every file sent by GET /download/:token lies inside DOWNLOAD_DIR
\* once its path is joined and canonicalised; a path that resolves outside
\* it, a sibling directory whose name starts with the DOWNLOAD_DIR string
\* included, is rejected.
C26_ServedInsideDownloadDir ==
  (resp.op = "Download" /\ resp.code = 200) => Within(resp.file, DownloadDir)

\* C27: removing a record removes from the Registry, and deletes the files
\* of, only the ManagedTorrent paired with that record.  A ManagedTorrent
\* that has a record of its info hash and of its user which the step does
\* not remove stays in the Registry of the running process, with its files.
C27_RemovesOnlyPairedTorrent ==
  [][\A h \in InfoHashes, i \in RowIds :
       (/\ registry[h] # NoMT
        /\ torrents[i].info_hash = h /\ torrents[i].user_id = registry[h].UserID
        /\ i \in DOMAIN torrents'
        /\ restarts' = restarts)
       => registry'[h] # NoMT /\ disk'[h] >= disk[h]]_vars

\* C28: when the store's insert fails after the engine has accepted the
\* torrent and the handler answers 500, the Registry afterwards holds no
\* ManagedTorrent for that request (so that a later add of the same magnet
\* is not answered TORRENT_EXISTS).
C28_FailedAddLeavesNoTorrent ==
  [][\A a \in AddSlots :
       AddSaveFails(a) => registry'[addReq[a].hash] = NoMT]_vars

\* C29: when the store write fails while the reducer handles an update, the
\* update is dropped with no further durable effect: the iteration changes
\* no record, appends no usage row and starts no packager.
C29_FailedCommitDropsUpdate ==
  [][ReduceStatusFails =>
       torrents' = torrents /\ usage' = usage /\ packagers' = packagers]_vars

\* The step is the end of the owner's resume request for record i.
ResumeEnds(i) == ctl.pc = "engine" /\ ctl.op = "resume" /\ ctl.id = i /\ ctl' = IdleCtl

\* C30: once a pause has succeeded the record's status stays paused until
\* the owner resumes or removes the torrent: no other step, a reducer commit
\* and a restart with reload included, changes the status of a paused record
\* that stays in the store, and no piece is downloaded for it.
C30_PausedStaysPaused ==
  [][\A i \in RowIds :
       (torrents[i].status = "paused" /\ i \in DOMAIN torrents' /\ ~ResumeEnds(i))
       => /\ torrents'[i].status = "paused"
          /\ disk'[torrents[i].info_hash] = disk[torrents[i].info_hash]]_vars
====
